---- MODULE Spec2Model ----
(***************************************************************************)
(* Model of the pic-splice-lizard plugin (src/src/index.ts): the per-user  *)
(* image collection, the debounce timer and the stitch-and-send pipeline.  *)
(* Every await of the source is a suspension point: the code before it     *)
(* runs atomically, and the continuation is a separate step that other     *)
(* tasks (messages, commands, timer expiries) may precede.                 *)
(***************************************************************************)
EXTENDS Integers, Sequences, FiniteSets, TLC

\* ---------------------------------------------------------------- bounds
MaxSessions == 2      \* successful trigger commands in one run of SpecCollect
MaxMsgs == 3          \* messages the middleware accepts in one run of SpecCollect
MaxRenderSessions == 1  \* the same, in one run of SpecRender
MaxRenderMsgs == 2
MaxSendFaults == 1    \* outbound sends that throw in one run
MaxPairSessions == 2  \* successful trigger commands in one run of SpecPair
MaxPairMsgs == 2      \* messages the middleware accepts in one run of SpecPair

\* ------------------------------------------------------- program constants
maxRetries == 3
MinImages == 2

Users == {"u1", "u2"}
ValidDirections == {"Horizontal", "Vertical"}
CmdDirections == ValidDirections \cup {"Diagonal"}

\* A message is the completion keyword, or other content with some image
\* elements in it (possibly none). The k-th image a user sends to a session
\* has the reference k, so that a list of references shows the order and
\* the completeness of what was sent.
Keyword == "done"
ImageCounts == {0, 1, 2}
Contents == {[text |-> Keyword, imgs |-> 0]} \cup
            {[text |-> "other", imgs |-> n] : n \in ImageCounts}

\* h.select(messageContent, 'img').map(img => img.attrs.src), for a message
\* whose first image is the user's image number from + 1
ExtractImages(c, from) == [i \in 1..c.imgs |-> from + i]
\* messageContent.trim() === keyword
IsKeyword(c) == c.text = Keyword

\* userImages[u] when the key is absent from the record
NoSession == [sid |-> 0, direction |-> "none", images |-> <<>>, processing |-> FALSE]
\* timeout[u] when the key is absent from the record
NoTimer == 0

VARIABLES
    userImages,   \* user -> session object (sid names the object) or NoSession
    timeout,      \* user -> handle of the timer last stored for the user, or NoTimer
    timers,       \* timers scheduled by setTimeout and neither fired nor cleared
    tasks,        \* async calls suspended at an await
    nextSid,      \* number of the next session object
    nextMsg,      \* number of the next message of a user with a session
    arrived,      \* user -> number of images sent in the messages arrived for the
                  \* stored session
    kwHandled,    \* user -> the keyword was handled on the stored session while it
                  \* held at least MinImages images
    tmHandled,    \* user -> a timer scheduled for the stored session expired while
                  \* the session held at least MinImages images
    fewEnded,     \* user -> number of images the stored session held when a call on
                  \* it last ended in the too-few-images branch, or -1
    lastMsg,      \* user -> number of the last message the middleware accepted for
                  \* the stored session, 0 if none
    gone,         \* user -> "deleted" once the finally block deleted the user's
                  \* session, "ignored" once the middleware then passed a message
                  \* of the user on to next(), "no" before and with a new session
    cmdError,     \* the step before was a trigger command that returned the
                  \* error text about the direction
    sendFaults    \* number of outbound sends that threw

vars == <<userImages, timeout, timers, tasks, nextSid, nextMsg, arrived, kwHandled,
          tmHandled, fewEnded, gone, lastMsg, cmdError, sendFaults>>

HasSession(u) == userImages[u].sid # 0

Init ==
    /\ userImages = [u \in Users |-> NoSession]
    /\ timeout = [u \in Users |-> NoTimer]
    /\ timers = {}
    /\ tasks = {}
    /\ nextSid = 1
    /\ nextMsg = 1
    /\ arrived = [u \in Users |-> 0]
    /\ kwHandled = [u \in Users |-> FALSE]
    /\ tmHandled = [u \in Users |-> FALSE]
    /\ fewEnded = [u \in Users |-> -1]
    /\ gone = [u \in Users |-> "no"]
    /\ lastMsg = [u \in Users |-> 0]
    /\ cmdError = FALSE
    /\ sendFaults = 0

\* ------------------------------------------------------------ helpers
\* a push at the front of the list
PushFront(images, new) == new \o images

\* userImages[u].images.push(...images)
Push(images, new) == images \o new

\* clearTimeout(handle): a handle that is absent, fired or cleared cancels nothing
clearTimeout(ts, handle) == {t \in ts : t.id # handle}

\* a clean-up that empties the whole store
DeleteAllSessions(ui, u) == [x \in Users |-> NoSession]

\* delete userImages[u]
DeleteSession(ui, u) == [ui EXCEPT ![u] = NoSession]

\* delete timeout[u]: the entry goes, the timer it named stays scheduled
DeleteTimeout(to, u) == [to EXCEPT ![u] = NoTimer]

\* the too-few-images branch cleaning up like the finally block does
ClearProcessingDeletes(ui, u, sid) == [ui EXCEPT ![u] = NoSession]

\* userImageData.processing = false, on the object the call captured; the
\* object is visible in the store only while it is still stored under u
ClearProcessing(ui, u, sid) ==
    IF ui[u].sid = sid THEN [ui EXCEPT ![u].processing = FALSE] ELSE ui

\* the guard of stitchAndSendImages: !userImageData || userImageData.processing
FinalizeSkips(ui, u) == ui[u].sid = 0 \/ ui[u].processing

\* images.length < 2
TooFew(images) == Len(images) < MinImages

\* generateHtmlForImages: one <img> per url, in order, in a row or a column
generateHtmlForImages(imageUrls, direction) ==
    [flex |-> IF direction = "Horizontal" THEN "row" ELSE "column", imgs |-> imageUrls]

NoHtml == [flex |-> "none", imgs |-> <<>>]

Task(id, origin, u, sid, pc, html, tsid) ==
    [id |-> id, origin |-> origin, user |-> u, sid |-> sid, pc |-> pc, html |-> html,
     attempt |-> 0, backoffs |-> 0, pages |-> 0, error |-> "none", tsid |-> tsid]

\* stitchAndSendImages up to its first await, called with the store ui.
\* origin/id name the caller (keyword message or timer), tsid the session
\* object the firing timer was scheduled for.
stitchAndSendImages(ui, u, origin, id, tsid) ==
    LET d == ui[u] IN
    IF FinalizeSkips(ui, u) THEN
        /\ userImages' = ui
        /\ tasks' = tasks
    ELSE IF TooFew(d.images) THEN
        /\ userImages' = [ui EXCEPT ![u].processing = TRUE]
        /\ tasks' = tasks \cup {Task(id, origin, u, d.sid, "few_send", NoHtml, tsid)}
    ELSE
        /\ userImages' = [ui EXCEPT ![u].processing = TRUE]
        /\ tasks' = tasks \cup
             {Task(id, origin, u, d.sid, "attempt",
                   generateHtmlForImages(d.images, d.direction), tsid)}

\* clearTimeout(timeout[u]); timeout[u] = setTimeout(..., 10000), in the
\* middleware call for message id, which was accepted for session object sid
ScheduleTimer(u, id, sid) ==
    /\ timers' = clearTimeout(timers, timeout[u]) \cup
                 {[id |-> id, user |-> u, sid |-> sid]}
    /\ timeout' = [timeout EXCEPT ![u] = id]

\* await session.send(...) returns (ok) or throws
Send(ok) ==
    /\ ok \/ sendFaults < MaxSendFaults
    /\ sendFaults' = IF ok THEN sendFaults ELSE sendFaults + 1

\* ------------------------------------------------------------ actions
\* a command that answers with the error text and starts a session with the
\* default direction all the same
RejectReplaces(u) ==
    /\ cmdError' = TRUE
    /\ userImages' = [userImages EXCEPT ![u] =
           [sid |-> nextSid, direction |-> "Vertical", images |-> <<>>,
            processing |-> FALSE]]
    /\ nextSid' = nextSid + 1
    /\ UNCHANGED <<timeout, timers, tasks, nextMsg, arrived, kwHandled, tmHandled,
                   fewEnded, gone, lastMsg, sendFaults>>

\* return of the error text about the direction
Reject(u) ==
    /\ cmdError' = TRUE
    /\ UNCHANGED <<userImages, timeout, timers, tasks, nextSid, nextMsg, arrived,
                   kwHandled, tmHandled, fewEnded, gone, lastMsg, sendFaults>>

\* ctx.command(...).action
StartSession(u, direction) ==
    IF direction \notin ValidDirections THEN
        Reject(u)
    ELSE
        /\ cmdError' = FALSE
        /\ userImages' = [userImages EXCEPT ![u] =
               [sid |-> nextSid, direction |-> direction, images |-> <<>>,
                processing |-> FALSE]]
        /\ nextSid' = nextSid + 1
        /\ arrived' = [arrived EXCEPT ![u] = 0]
        /\ kwHandled' = [kwHandled EXCEPT ![u] = FALSE]
        /\ tmHandled' = [tmHandled EXCEPT ![u] = FALSE]
        /\ fewEnded' = [fewEnded EXCEPT ![u] = -1]
        /\ gone' = [gone EXCEPT ![u] = "no"]
        /\ lastMsg' = [lastMsg EXCEPT ![u] = 0]
        /\ UNCHANGED <<timeout, timers, tasks, nextMsg, sendFaults>>

\* the middleware scheduling its timer for a message of a user without session
PassOnSchedules(u) ==
    /\ cmdError' = FALSE
    /\ ScheduleTimer(u, nextMsg, 0)
    /\ gone' = [gone EXCEPT ![u] = IF @ = "deleted" THEN "ignored" ELSE @]
    /\ UNCHANGED <<userImages, tasks, nextSid, nextMsg, arrived, kwHandled,
                   tmHandled, fewEnded, lastMsg, sendFaults>>

\* return next(): the message of a user without session goes on to the
\* next middleware
PassOn(u) ==
    /\ cmdError' = FALSE
    /\ gone' = [gone EXCEPT ![u] = IF @ = "deleted" THEN "ignored" ELSE @]
    /\ UNCHANGED <<userImages, timeout, timers, tasks, nextSid, nextMsg, arrived,
                   kwHandled, tmHandled, fewEnded, lastMsg, sendFaults>>

\* ctx.middleware, up to its first await
OnMessage(u, c) ==
    IF ~HasSession(u) THEN
        PassOn(u)
    ELSE
        /\ cmdError' = FALSE
        /\ nextMsg' = nextMsg + 1
        /\ lastMsg' = [lastMsg EXCEPT ![u] = nextMsg]
        /\ UNCHANGED <<nextSid, tmHandled, fewEnded, gone, sendFaults>>
        /\ LET images == ExtractImages(c, arrived[u])
               sid == userImages[u].sid
               pushed == [userImages EXCEPT ![u].images = Push(@, images)]
           IN
           /\ arrived' = [arrived EXCEPT ![u] = @ + Len(images)]
           /\ IF Len(images) > 0 THEN
                  \* await session.send(status)
                  /\ userImages' = pushed
                  /\ tasks' = tasks \cup {Task(nextMsg, "msg", u, sid, "status", NoHtml, 0)}
                  /\ UNCHANGED <<timeout, timers, kwHandled>>
              ELSE IF IsKeyword(c) THEN
                  /\ stitchAndSendImages(pushed, u, "kw", nextMsg, 0)
                  \* the call returned without suspending: clearTimeout follows at once
                  /\ timers' = IF FinalizeSkips(pushed, u)
                               THEN clearTimeout(timers, timeout[u]) ELSE timers
                  /\ kwHandled' = [kwHandled EXCEPT
                         ![u] = @ \/ Len(pushed[u].images) >= MinImages]
                  /\ UNCHANGED timeout
              ELSE
                  /\ userImages' = pushed
                  /\ ScheduleTimer(u, nextMsg, sid)
                  /\ UNCHANGED <<tasks, kwHandled>>

\* the status send returned (ok) or threw; on return the middleware goes on
\* to the timer (the content of a message with images is not the keyword)
StatusSent(t, ok) ==
    /\ cmdError' = FALSE
    /\ t \in tasks /\ t.pc = "status"
    /\ Send(ok)
    /\ tasks' = tasks \ {t}
    /\ IF ok THEN ScheduleTimer(t.user, t.id, t.sid) ELSE UNCHANGED <<timeout, timers>>
    /\ UNCHANGED <<userImages, nextSid, nextMsg, arrived, kwHandled, tmHandled, fewEnded,
                   gone, lastMsg>>

\* the setTimeout callback
TimerFires(tm) ==
    /\ cmdError' = FALSE
    /\ tm \in timers
    /\ timers' = timers \ {tm}
    /\ stitchAndSendImages(userImages, tm.user, "timer", tm.id, tm.sid)
    /\ tmHandled' = [tmHandled EXCEPT ![tm.user] =
           @ \/ (userImages[tm.user].sid = tm.sid
                 /\ Len(userImages[tm.user].images) >= MinImages)]
    /\ UNCHANGED <<timeout, nextSid, nextMsg, arrived, kwHandled, fewEnded, gone, lastMsg,
                   sendFaults>>

\* stitchAndSendImages after await session.send(need two images)
FewSent(t, ok) ==
    /\ cmdError' = FALSE
    /\ t \in tasks /\ t.pc = "few_send"
    /\ Send(ok)
    /\ tasks' = tasks \ {t}
    /\ IF ok THEN
           /\ userImages' = ClearProcessing(userImages, t.user, t.sid)
           \* back in the keyword branch of the middleware: clearTimeout
           /\ timers' = IF t.origin = "kw"
                        THEN clearTimeout(timers, timeout[t.user]) ELSE timers
           /\ fewEnded' = IF userImages[t.user].sid = t.sid
                          THEN [fewEnded EXCEPT ![t.user] = Len(userImages[t.user].images)]
                          ELSE fewEnded
       ELSE UNCHANGED <<userImages, timers, fewEnded>>
    /\ UNCHANGED <<timeout, nextSid, nextMsg, arrived, kwHandled, tmHandled, gone, lastMsg>>

\* how one pass of the loop of stitchImages ends: with the screenshot, or
\* with an error thrown before or after ctx.puppeteer.page() returned a
\* page, its message naming a closed connection or not
AttemptOutcomes == {"ok", "closed", "closed_page", "other", "other_page"}

IsClosed(outcome) == outcome \in {"closed", "closed_page"}
LeavesPage(outcome) == outcome \in {"closed_page", "other_page"}

\* the error a pass of the loop caught, by its outcome
Caught(outcome) ==
    IF outcome = "ok" THEN "none" ELSE IF IsClosed(outcome) THEN "closed" ELSE "other"

\* a loop that waits and goes on after any error
AttemptEndsRetriesAll(t, outcome) ==
    /\ cmdError' = FALSE
    /\ t \in tasks /\ t.pc = "attempt"
    /\ tasks' = (tasks \ {t}) \cup
         {[t EXCEPT !.pc = IF outcome = "ok" THEN "send_img" ELSE "backoff",
                    !.pages = IF LeavesPage(outcome) THEN @ + 1 ELSE @,
                    !.error = Caught(outcome)]}
    /\ UNCHANGED <<userImages, timeout, timers, nextSid, nextMsg, arrived, kwHandled,
                   tmHandled, fewEnded, gone, lastMsg, sendFaults>>

\* one pass of the loop of stitchImages ends: return of the screenshot, the
\* retry delay after a closed connection, or the error thrown on
AttemptEnds(t, outcome) ==
    /\ cmdError' = FALSE
    /\ t \in tasks /\ t.pc = "attempt"
    /\ tasks' = (tasks \ {t}) \cup
         {[t EXCEPT !.pc = IF outcome = "ok" THEN "send_img"
                           ELSE IF IsClosed(outcome) THEN "backoff" ELSE "send_fail",
                    !.pages = IF LeavesPage(outcome) THEN @ + 1 ELSE @,
                    !.error = Caught(outcome)]}
    /\ UNCHANGED <<userImages, timeout, timers, nextSid, nextMsg, arrived, kwHandled,
                   tmHandled, fewEnded, gone, lastMsg, sendFaults>>

\* the retry delay ends: next pass, or the loop is over and stitchImages throws
BackoffEnds(t) ==
    /\ cmdError' = FALSE
    /\ t \in tasks /\ t.pc = "backoff"
    /\ tasks' = (tasks \ {t}) \cup
         {IF t.attempt + 1 < maxRetries
          THEN [t EXCEPT !.pc = "attempt", !.attempt = @ + 1, !.backoffs = @ + 1,
                         !.error = "none"]
          ELSE [t EXCEPT !.pc = "send_fail", !.backoffs = @ + 1,
                         !.error = "max_retries"]}
    /\ UNCHANGED <<userImages, timeout, timers, nextSid, nextMsg, arrived, kwHandled,
                   tmHandled, fewEnded, gone, lastMsg, sendFaults>>

\* the clean-up at the end of the try block, not in a finally block
FinallyOnSuccess(t) ==
    /\ tasks' = tasks \ {t}
    /\ IF t.pc = "send_img"
       THEN /\ userImages' = [userImages EXCEPT ![t.user] = NoSession]
            /\ timeout' = [timeout EXCEPT ![t.user] = NoTimer]
            /\ arrived' = [arrived EXCEPT ![t.user] = 0]
            /\ kwHandled' = [kwHandled EXCEPT ![t.user] = FALSE]
            /\ tmHandled' = [tmHandled EXCEPT ![t.user] = FALSE]
            /\ fewEnded' = [fewEnded EXCEPT ![t.user] = -1]
            /\ gone' = [gone EXCEPT ![t.user] = IF HasSession(t.user) THEN "deleted" ELSE @]
            /\ lastMsg' = [lastMsg EXCEPT ![t.user] = 0]
       ELSE UNCHANGED <<userImages, timeout, arrived, kwHandled, tmHandled, fewEnded, gone, lastMsg>>

\* the finally block of stitchAndSendImages
Finally(t) ==
    /\ tasks' = tasks \ {t}
    /\ userImages' = DeleteSession(userImages, t.user)
    /\ timeout' = DeleteTimeout(timeout, t.user)
    /\ arrived' = [arrived EXCEPT ![t.user] = 0]
    /\ kwHandled' = [kwHandled EXCEPT ![t.user] = FALSE]
    /\ tmHandled' = [tmHandled EXCEPT ![t.user] = FALSE]
    /\ fewEnded' = [fewEnded EXCEPT ![t.user] = -1]
    /\ gone' = [gone EXCEPT ![t.user] = IF HasSession(t.user) THEN "deleted" ELSE @]
    /\ lastMsg' = [lastMsg EXCEPT ![t.user] = 0]

\* a call that sends the failure text after the image was sent
ImageSentThenFailure(t, ok) ==
    /\ cmdError' = FALSE
    /\ t \in tasks /\ t.pc = "send_img"
    /\ Send(ok)
    /\ tasks' = (tasks \ {t}) \cup
                 {[t EXCEPT !.pc = "send_fail", !.error = IF ok THEN "none" ELSE "send"]}
    /\ UNCHANGED <<userImages, timeout, arrived, kwHandled, tmHandled, fewEnded, gone, lastMsg>>
    /\ UNCHANGED <<timers, nextSid, nextMsg>>

\* await session.send(h.image(...)) returned, or threw into the catch block
ImageSent(t, ok) ==
    /\ cmdError' = FALSE
    /\ t \in tasks /\ t.pc = "send_img"
    /\ Send(ok)
    /\ IF ok THEN Finally(t)
       ELSE
           /\ tasks' = (tasks \ {t}) \cup {[t EXCEPT !.pc = "send_fail", !.error = "send"]}
           /\ UNCHANGED <<userImages, timeout, arrived, kwHandled, tmHandled, fewEnded,
                          gone, lastMsg>>
    /\ UNCHANGED <<timers, nextSid, nextMsg>>

\* await session.send(failure text) in the catch block returned or threw
FailureSent(t, ok) ==
    /\ cmdError' = FALSE
    /\ t \in tasks /\ t.pc = "send_fail"
    /\ Send(ok)
    /\ Finally(t)
    /\ UNCHANGED <<timers, nextSid, nextMsg>>

\* Every step of the plugin, for runs of at most MaxSessions sessions and
\* MaxMsgs accepted messages.
Next ==
    \/ \E u \in Users, d \in CmdDirections : nextSid <= MaxSessions /\ StartSession(u, d)
    \/ \E u \in Users, c \in Contents : nextMsg <= MaxMsgs /\ OnMessage(u, c)
    \/ \E t \in tasks, ok \in BOOLEAN : StatusSent(t, ok)
    \/ \E tm \in timers : TimerFires(tm)
    \/ \E t \in tasks, ok \in BOOLEAN : FewSent(t, ok)
    \/ \E t \in tasks, o \in AttemptOutcomes : AttemptEnds(t, o)
    \/ \E t \in tasks : BackoffEnds(t)
    \/ \E t \in tasks, ok \in BOOLEAN : ImageSent(t, ok)
    \/ \E t \in tasks, ok \in BOOLEAN : FailureSent(t, ok)

Spec == Init /\ [][Next]_vars

\* One user collecting: the trigger command with the default direction, any
\* message, and a render engine whose connection stays open, so that a
\* render succeeds or fails for good at its first attempt.
CollectUsers == {"u1"}
CollectDirections == {"Vertical"}
CollectOutcomes == {"ok", "other"}

NextCollect ==
    \/ \E u \in CollectUsers, d \in CollectDirections :
          nextSid <= MaxSessions /\ StartSession(u, d)
    \/ \E u \in CollectUsers, c \in Contents : nextMsg <= MaxMsgs /\ OnMessage(u, c)
    \/ \E t \in tasks, ok \in BOOLEAN : StatusSent(t, ok)
    \/ \E tm \in timers : TimerFires(tm)
    \/ \E t \in tasks, ok \in BOOLEAN : FewSent(t, ok)
    \/ \E t \in tasks, o \in CollectOutcomes : AttemptEnds(t, o)
    \/ \E t \in tasks, ok \in BOOLEAN : ImageSent(t, ok)
    \/ \E t \in tasks, ok \in BOOLEAN : FailureSent(t, ok)

SpecCollect == Init /\ [][NextCollect]_vars

\* One user rendering: messages with two images or the keyword, and a render
\* that ends in any of the ways stitchImages can end.
RenderContents == {c \in Contents : IsKeyword(c) \/ c.imgs = 2}

NextRender ==
    \/ \E u \in CollectUsers, d \in CollectDirections :
          nextSid <= MaxRenderSessions /\ StartSession(u, d)
    \/ \E u \in CollectUsers, c \in RenderContents :
          nextMsg <= MaxRenderMsgs /\ OnMessage(u, c)
    \/ \E t \in tasks, ok \in BOOLEAN : StatusSent(t, ok)
    \/ \E tm \in timers : TimerFires(tm)
    \/ \E t \in tasks, ok \in BOOLEAN : FewSent(t, ok)
    \/ \E t \in tasks, o \in AttemptOutcomes : AttemptEnds(t, o)
    \/ \E t \in tasks : BackoffEnds(t)
    \/ \E t \in tasks, ok \in BOOLEAN : ImageSent(t, ok)
    \/ \E t \in tasks, ok \in BOOLEAN : FailureSent(t, ok)

SpecRender == Init /\ [][NextRender]_vars

\* Two users, each collecting with messages of two images or the keyword
\* after a trigger command with the other valid direction or a wrong one,
\* their steps interleaved in any order.
PairDirections == {"Horizontal", "Diagonal"}

NextPair ==
    \/ \E u \in Users, d \in PairDirections :
          nextSid <= MaxPairSessions /\ StartSession(u, d)
    \/ \E u \in Users, c \in RenderContents : nextMsg <= MaxPairMsgs /\ OnMessage(u, c)
    \/ \E t \in tasks, ok \in BOOLEAN : StatusSent(t, ok)
    \/ \E tm \in timers : TimerFires(tm)
    \/ \E t \in tasks, ok \in BOOLEAN : FewSent(t, ok)
    \/ \E t \in tasks, o \in CollectOutcomes : AttemptEnds(t, o)
    \/ \E t \in tasks, ok \in BOOLEAN : ImageSent(t, ok)
    \/ \E t \in tasks, ok \in BOOLEAN : FailureSent(t, ok)

SpecPair == Init /\ [][NextPair]_vars

\* ------------------------------------------------------------ properties
FinalizePcs == {"few_send", "attempt", "backoff", "send_img", "send_fail"}
RenderPcs == {"attempt", "backoff", "send_img", "send_fail"}

\* the timers pending for u
Pending(u) == {tm \in timers : tm.user = u}
\* the calls of stitchAndSendImages in flight on session object sid of u
InFlight(u, sid) == {t \in tasks : t.user = u /\ t.sid = sid /\ t.pc \in FinalizePcs}
\* the calls among them that reached stitchImages
Rendering(u, sid) == {t \in InFlight(u, sid) : t.pc \in RenderPcs}
\* nothing runs or is scheduled for u: without a further message or command
\* no code of the plugin will run for u again
Quiet(u) == Pending(u) = {} /\ \A t \in tasks : t.user # u
\* this step is the end of the async call t
TaskEnds(t) == t \in tasks /\ \A x \in tasks' : ~(x.id = t.id /\ x.origin = t.origin)
\* this step is the start of the async call t
TaskStarts(t) == t \in tasks' /\ \A x \in tasks : ~(x.id = t.id /\ x.origin = t.origin)
\* the references of the first n images a user sends to a session, in order
Ident(n) == [i \in 1..n |-> i]

\* C1: once the completion keyword has been handled and a timer of the
\* session has expired, both on a session that held at least two images, the
\* render is invoked exactly once for that session, wherever the expiry fell:
\* never are two renders of one session in flight, and when nothing runs or
\* is scheduled for the user any more (and no send threw) the session has
\* been rendered, which removes it.
C1_ExactlyOneRender ==
    \A u \in Users :
        /\ HasSession(u) => Cardinality(Rendering(u, userImages[u].sid)) <= 1
        /\ (kwHandled[u] /\ tmHandled[u] /\ sendFaults = 0 /\ Quiet(u)) => ~HasSession(u)

\* C2: the image list handed to stitchImages is the list of the images of the
\* messages accepted for the session, in arrival order (image k of the
\* session is the k-th element), whatever the message boundaries were; the
\* stored list is that list at every step.
C2_RenderedInArrivalOrder ==
    [][\A u \in Users :
          /\ HasSession(u) => userImages[u].images = Ident(arrived[u])
          /\ \A t \in tasks' :
                (t.user = u /\ TaskStarts(t) /\ t.pc = "attempt")
                    => t.html.imgs = Ident(arrived[u])]_vars

\* three images, which took at least two messages, are being rendered
C2_Witness ==
    \E t \in tasks : t.pc = "attempt" /\ t.html.imgs = <<1, 2, 3>>

\* C3: a session that holds at least two images is rendered once the user
\* stops sending: in a run where no send threw, when nothing runs or is
\* scheduled for the user any more, no session with two or more images is
\* left in the store.
C3_QuietSessionRendered ==
    \A u \in Users :
        (sendFaults = 0 /\ Quiet(u) /\ HasSession(u))
            => Len(userImages[u].images) < MinImages

\* C4: a call of stitchAndSendImages on fewer than two images starts no
\* render, and when its message has been sent it leaves the store as it was
\* but for the processing flag of its session, which is cleared; an image
\* message accepted for a session appends its images to the stored list.
C4_TooFewKeepsSession ==
    [][\A u \in Users :
          LET s == userImages[u] IN
          /\ \A t \in tasks' :
                (t.user = u /\ TaskStarts(t) /\ t.pc = "few_send") =>
                    /\ Len(s.images) < MinImages
                    /\ userImages'[u] = [s EXCEPT !.processing = TRUE]
                    /\ tasks' = tasks \cup {t}
          /\ \A t \in tasks :
                (t.user = u /\ t.pc = "few_send" /\ TaskEnds(t)
                 /\ sendFaults' = sendFaults) =>
                    /\ userImages'[u] = IF s.sid = t.sid
                                        THEN [s EXCEPT !.processing = FALSE] ELSE s
                    /\ tasks' = tasks \ {t}
          /\ arrived'[u] > arrived[u] =>
                /\ userImages'[u].sid = s.sid
                /\ userImages'[u].images =
                       s.images \o [i \in 1..(arrived'[u] - arrived[u]) |-> arrived[u] + i]
      ]_vars

\* a call on the stored session ended in the too-few-images branch when the
\* session held image 1 alone; the session is still stored, not processing,
\* and a later message has appended images 2 and 3 to its list
C4_Witness ==
    \E u \in Users :
        /\ fewEnded[u] = 1 /\ sendFaults = 0
        /\ userImages[u].images = <<1, 2, 3>> /\ ~userImages[u].processing

\* C5: when a call of stitchAndSendImages that reached stitchImages ends,
\* after the image was sent, after the failure text was sent, or with the
\* send of the failure text throwing, the user has no session in the store.
C5_RenderEndDeletes ==
    [][\A t \in tasks :
          (t.pc \in {"send_img", "send_fail"} /\ TaskEnds(t))
              => userImages'[t.user] = NoSession]_vars

\* One session, one accepted message, one send that threw, and the session
\* is gone with nothing in flight: the message carried two images, its timer
\* fired, the render ran and a send of the result threw.
C5_Witness ==
    /\ nextSid = 2 /\ nextMsg = 2 /\ sendFaults = 1 /\ tasks = {}
    /\ \A u \in Users : ~HasSession(u)

\* C6: when the handling of the completion keyword ends (no send having
\* thrown in it), no timer scheduled by an earlier message is pending for
\* the user.
C6_KeywordCancelsTimer ==
    [][\A u \in Users :
          /\ (HasSession(u) /\ FinalizeSkips(userImages, u)
              /\ \E c \in Contents : IsKeyword(c) /\ OnMessage(u, c))
                => \A tm \in timers' : ~(tm.user = u /\ tm.id < nextMsg)
          /\ \A t \in tasks :
                (t.user = u /\ t.origin = "kw" /\ TaskEnds(t) /\ sendFaults' = sendFaults)
                    => \A tm \in timers' : ~(tm.user = u /\ tm.id < t.id)]_vars

\* C7: a timer runs stitchAndSendImages only on the session object its
\* message was accepted for, never on one a later trigger command created.
C7_TimerOnItsOwnSession ==
    \A t \in tasks : (t.origin = "timer" /\ t.pc \in FinalizePcs) => t.tsid = t.sid

\* C8: at most one timer is pending for a user.
C8_OneTimerPerUser ==
    \A u \in Users : Cardinality(Pending(u)) <= 1

\* C9: a stored session has processing = true only while a call of
\* stitchAndSendImages is in flight on it.
C9_ProcessingNeverStuck ==
    \A u \in Users :
        (HasSession(u) /\ userImages[u].processing)
            => InFlight(u, userImages[u].sid) # {}

\* C10: while a call of stitchAndSendImages is in flight on a stored session
\* and has reached the render, no step changes the images of that session.
C10_NoMutationInFlight ==
    [][\A u \in Users :
          (/\ HasSession(u) /\ userImages[u].processing
           /\ Rendering(u, userImages[u].sid) # {}
           /\ userImages'[u].sid = userImages[u].sid)
              => userImages'[u].images = userImages[u].images]_vars

\* C11: a stored session has at most one call of stitchAndSendImages in
\* flight on it, and its processing flag is true exactly when one is.
C11_ProcessingIffInFlight ==
    \A u \in Users :
        HasSession(u) =>
            /\ Cardinality(InFlight(u, userImages[u].sid)) <= 1
            /\ userImages[u].processing <=> InFlight(u, userImages[u].sid) # {}

\* C12: once the finally block has deleted a user's session, and until a
\* trigger command creates a new one, a message of that user changes nothing:
\* the step that passes it on leaves the sessions, the timers, the calls in
\* flight and the sends as they were, and as long as the user has no session
\* and no command is run, no session appears for the user, no call starts
\* for the user and no timer is scheduled for the user by a new message.
C12_NoSessionNoOp ==
    [][\A u \in Users :
          /\ (~HasSession(u) /\ gone[u] = "deleted" /\ gone'[u] = "ignored")
                => UNCHANGED <<userImages, timeout, timers, tasks, nextMsg, sendFaults>>
          /\ (~HasSession(u) /\ nextSid' = nextSid) =>
                /\ userImages'[u] = NoSession
                /\ \A t \in tasks' : t.user = u => ~TaskStarts(t)
                /\ \A tm \in timers' \ timers : tm.user = u => tm.id < nextMsg
      ]_vars

\* a message of the user was passed on after the finally block deleted the
\* session, and the user still has none
C12_Witness ==
    \E u \in Users : gone[u] = "ignored" /\ ~HasSession(u)

\* the call t of this state as it is after the step, if it is still in flight
After(t) == {x \in tasks' : x.id = t.id /\ x.origin = t.origin}

\* C13: stitchImages makes at most maxRetries passes; a pass follows another
\* only after that one caught a closed-connection error and waited; any
\* other error ends stitchImages at once, in the pass that caught it; and
\* stitchImages ends with the max-retries error exactly after the last pass
\* caught a closed-connection error.
C13_RetryOnlyOnClosed ==
    [][\A t \in tasks : \A x \in After(t) :
          /\ x.attempt < maxRetries
          /\ x.attempt # t.attempt =>
                /\ x.attempt = t.attempt + 1 /\ x.pc = "attempt"
                /\ t.pc = "backoff" /\ t.error = "closed"
          /\ (t.pc = "attempt" /\ x.pc = "backoff") => x.error = "closed"
          /\ (t.pc = "attempt" /\ x.pc = "send_fail") =>
                x.error = "other" /\ x.attempt = t.attempt
          /\ (t.pc = "backoff" /\ x.pc = "send_fail") =>
                /\ x.error = "max_retries" /\ t.error = "closed"
                /\ t.attempt = maxRetries - 1
          /\ x.error = "max_retries" => x.backoffs = maxRetries
      ]_vars

\* three passes caught a closed-connection error and stitchImages threw the
\* max-retries error
C13_Witness ==
    \E t \in tasks : t.pc = "send_fail" /\ t.error = "max_retries" /\ t.attempt = 2

\* C14: closed-connection errors stay inside stitchImages: when a pass
\* returns the screenshot, the passes before it each caught a closed
\* connection and were each followed by one retry delay, so that pass number
\* k comes after k-1 delays; a delay lies between a pass and the next one;
\* the image is then sent once and, when that send returns, the call is
\* over: no failure text is sent.
C14_TransientAbsorbed ==
    [][\A t \in tasks : \A x \in After(t) :
          /\ (t.pc = "attempt" /\ x.pc = "backoff") =>
                x.backoffs = t.backoffs /\ x.attempt = t.attempt
          /\ (t.pc = "backoff" /\ x.pc = "attempt") =>
                x.backoffs = t.backoffs + 1 /\ x.attempt = t.attempt + 1
          /\ x.pc = "attempt" => x.backoffs = x.attempt
          /\ (x.pc = "send_img" /\ x # t) =>
                /\ t.pc = "attempt" /\ x.error = "none"
                /\ x.backoffs = x.attempt /\ x.attempt = t.attempt
          /\ (t.pc = "send_img" /\ sendFaults' = sendFaults) => x = t
      ]_vars

\* the third pass returned the screenshot after two retry delays
C14_Witness ==
    \E t \in tasks : t.pc = "send_img" /\ t.attempt = 2 /\ t.backoffs = 2

\* C15: when a pass of the loop of stitchImages is over (the call waits for
\* the retry delay or has left stitchImages), no page the call acquired is
\* still open.
C15_PageReleased ==
    \A t \in tasks : t.pc \in {"backoff", "send_img", "send_fail"} => t.pages = 0

\* C16: a trigger command with a direction that is neither of the two valid
\* ones returns the error text and changes nothing: the sessions (direction,
\* images, processing flag), the timers and the calls in flight are after
\* the command what they were before it.
C16_InvalidDirectionNoChange ==
    [][cmdError' => UNCHANGED <<userImages, timeout, timers, tasks, nextSid, nextMsg,
                                sendFaults>>]_vars

\* a command was just rejected while the user had a session with an image,
\* a pending timer and a call of stitchAndSendImages in flight
C16_Witness ==
    /\ cmdError
    /\ \E u \in Users :
          /\ HasSession(u) /\ userImages[u].processing
          /\ Len(userImages[u].images) > 0
          /\ Pending(u) # {}

\* C17: a timer expiry starts the work of stitchAndSendImages on a session
\* only if the timer was scheduled for that session object by the last
\* message the middleware accepted for it: no message was accepted for the
\* session after the one that scheduled the timer.
C17_TimerAfterQuiet ==
    [][\A t \in tasks' :
          (TaskStarts(t) /\ t.origin = "timer")
              => (t.tsid = t.sid /\ t.id = lastMsg[t.user])]_vars

\* C18: the end of a call of stitchAndSendImages that reached stitchImages
\* deletes only the session object the call was started on: a session that a
\* later trigger command stored for the user is left as it is.
C18_DeletesOwnSession ==
    [][\A t \in tasks :
          (t.pc \in {"send_img", "send_fail"} /\ TaskEnds(t)
           /\ HasSession(t.user) /\ userImages[t.user].sid # t.sid)
              => userImages'[t.user] = userImages[t.user]]_vars

\* the elements of a list
Range(seq) == {seq[i] : i \in 1..Len(seq)}

\* C19: no acknowledged image is dropped: when the end of a call of
\* stitchAndSendImages deletes the session it was started on, and every
\* message accepted for that session has had its status message sent (no
\* status send is pending for it and none threw), every image of the stored
\* list is in the page the call rendered.
C19_AcknowledgedNotDropped ==
    [][\A t \in tasks :
          LET s == userImages[t.user] IN
          (/\ t.pc \in {"send_img", "send_fail"} /\ TaskEnds(t)
           /\ s.sid = t.sid /\ sendFaults' = 0
           /\ \A x \in tasks : ~(x.pc = "status" /\ x.user = t.user /\ x.sid = s.sid))
              => Range(s.images) \subseteq Range(t.html.imgs)]_vars

\* what the plugin holds for user u: the session, the timer handle, the
\* pending timers and the calls in flight
Of(u) == <<userImages[u], timeout[u], Pending(u), {t \in tasks : t.user = u}>>

\* C20: every step of the plugin (a command, a message, a timer expiry, a
\* continuation of stitchAndSendImages with its deletion of the session) is
\* the step of one user: the session (direction, images, processing flag),
\* the timer handle, the pending timers and the calls in flight of every
\* other user are after the step what they were before it.
C20_UsersIndependent ==
    [][\E a \in Users : \A b \in Users \ {a} : Of(b)' = Of(b)]_vars

\* u1's session was rendered and deleted while u2's session, with its two
\* images and its pending timer, is in the store
C20_Witness ==
    /\ gone["u1"] = "deleted" /\ ~HasSession("u1")
    /\ HasSession("u2") /\ userImages["u2"].images = <<1, 2>>
    /\ Pending("u2") # {}

====
